---- MODULE Spec2Model ----
(***************************************************************************)
(* Smart Gallery: the SQLite metadata store (database.py), the AI analysis *)
(* gateway (ai_engine.py) and the handlers of the gallery view and of the  *)
(* image editor that drive them (ui/gallery_view.py, ui/image_details.py). *)
(*                                                                         *)
(* Text values that the code trims or searches (tag names, queries) are    *)
(* sequences of one-character strings, so that str.strip() and LIKE are    *)
(* computed, not assumed.                                                  *)
(***************************************************************************)
EXTENDS Integers, Sequences, FiniteSets, Bags, TLC

\* ---------------------------------------------------------------- bounds
\* longest list of names handed to upsert_tags, tags on their own
MaxNames == 3
\* longest list of names handed to upsert_tags, whole store
MaxStoreNames == 1
\* longest list of tag ids handed to link_tags_to_image
MaxTagIds == 2
\* caps on the AUTOINCREMENT counters of sqlite_sequence
MaxImageRowid == 3
MaxTagRowid == 2
MaxUpsertRowid == 4
\* last value of the CURRENT_TIMESTAMP clock
MaxClock == 1
\* cap on the images counter while the reads are tried
MaxSearchRowid == 2
\* longest list of names and cap on the tags counter, for tags that lose
\* their join rows
MaxOrphanNames == 2
MaxOrphanRowid == 3
\* longest tag list of the editor, and cap on the tags counter while it saves
MaxEditorTags == 2
MaxEditorRowid == 3
\* caps on the two counters while files are imported
MaxImportRowid == 2
MaxImportTagRowid == 8

\* ---------------------------------------------------------------- inputs
Paths == {"p1", "p2"}
Descriptions == {"", "d"}
RawNames == {<<"a">>, <<"A">>, <<" ", " ">>, <<" ", "a", " ">>}

RECURSIVE SeqsUpTo(_, _)
SeqsUpTo(S, n) ==
  IF n = 0 THEN {<<>>}
  ELSE LET shorter == SeqsUpTo(S, n - 1)
       IN shorter \cup {Append(s, x) : s \in shorter, x \in S}

VARIABLES images, tags, image_tags, seq, clock, last, use_real_ai, ai,
          editor, importer

vars ==
  <<images, tags, image_tags, seq, clock, last, use_real_ai, ai, editor,
    importer>>

\* ------------------------------------------------------------ str helpers
IsSpace(c) == c \in {" ", "\t", "\n", "\r"}

RECURSIVE lstrip(_)
lstrip(s) ==
  IF s = <<>> THEN s
  ELSE IF IsSpace(Head(s)) THEN lstrip(Tail(s)) ELSE s

RECURSIVE rstrip(_)
rstrip(s) ==
  IF s = <<>> THEN s
  ELSE IF IsSpace(s[Len(s)]) THEN rstrip(SubSeq(s, 1, Len(s) - 1)) ELSE s

\* str.strip()
strip(s) == rstrip(lstrip(s))

\* [name.strip() for name in names if name.strip()]
RECURSIVE cleaned_names(_)
cleaned_names(names) ==
  IF names = <<>> THEN <<>>
  ELSE IF strip(Head(names)) # <<>>
       THEN <<strip(Head(names))>> \o cleaned_names(Tail(names))
       ELSE cleaned_names(Tail(names))

\* ------------------------------------------------------------ the tables
\* int(processed_flag)
int(b) == IF b THEN 1 ELSE 0

ImageRow(path, description, flag, ts) ==
  [path |-> path, description |-> description, processed_flag |-> flag,
   created_at |-> ts]

\* SELECT id FROM images WHERE path = ?  (0 when no row: `else 0`)
SelectImageId(tbl, path) ==
  IF \E i \in DOMAIN tbl : tbl[i].path = path
  THEN CHOOSE i \in DOMAIN tbl : tbl[i].path = path
  ELSE 0

\* SELECT id FROM tags WHERE name = ?  (0 when fetchone() gives None)
SelectTagId(tbl, name) ==
  IF \E i \in DOMAIN tbl : tbl[i] = name
  THEN CHOOSE i \in DOMAIN tbl : tbl[i] = name
  ELSE 0

\* INSERT OR IGNORE INTO images ... on a connection whose
\* last_insert_rowid is conn_rowid.  An AUTOINCREMENT table takes the rowid
\* from sqlite_sequence and the counter advances even when the UNIQUE
\* conflict makes the statement a no-op; an ignored insert leaves the
\* connection's last_insert_rowid as it was.
InsertOrIgnoreImage(tbl, sq, conn_rowid, row) ==
  LET rowid == sq + 1
  IN IF \E i \in DOMAIN tbl : tbl[i].path = row.path
     THEN [table |-> tbl, seq |-> rowid, lastrowid |-> conn_rowid]
     ELSE [table |-> tbl @@ (rowid :> row), seq |-> rowid, lastrowid |-> rowid]

\* INSERT OR IGNORE INTO tags (name) VALUES (?)
InsertOrIgnoreTag(tbl, sq, conn_rowid, name) ==
  LET rowid == sq + 1
  IN IF \E i \in DOMAIN tbl : tbl[i] = name
     THEN [table |-> tbl, seq |-> rowid, lastrowid |-> conn_rowid]
     ELSE [table |-> tbl @@ (rowid :> name), seq |-> rowid, lastrowid |-> rowid]

\* add_image as it would be with INSERT OR REPLACE: the conflicting row is
\* deleted and a new one takes the next rowid
add_image_replace(tbl, sq, path, description, processed_flag, now) ==
  LET rowid == sq + 1
      kept == [i \in {j \in DOMAIN tbl : tbl[j].path # path} |-> tbl[i]]
  IN [table |-> kept @@ (rowid :> ImageRow(path, description,
                                           int(processed_flag), now)),
      seq |-> rowid, ret |-> rowid]

\* Database.add_image: the new table, the new counter and the returned id
add_image(tbl, sq, path, description, processed_flag, now) ==
  LET ins == InsertOrIgnoreImage(tbl, sq, 0,
                 ImageRow(path, description, int(processed_flag), now))
  IN [table |-> ins.table, seq |-> ins.seq,
      ret |-> IF ins.lastrowid # 0 THEN ins.lastrowid
              ELSE SelectImageId(ins.table, path)]

\* the `for name in cleaned_names` loop of upsert_tags, on one connection
RECURSIVE upsert_loop(_, _)
upsert_loop(st, names) ==
  IF names = <<>> THEN st
  ELSE LET ins == InsertOrIgnoreTag(st.table, st.seq, st.lastrowid, Head(names))
           row == SelectTagId(ins.table, Head(names))
           ids == IF ins.lastrowid # 0 THEN Append(st.tag_ids, ins.lastrowid)
                  ELSE IF row # 0 THEN Append(st.tag_ids, row)
                  ELSE st.tag_ids
       IN upsert_loop([table |-> ins.table, seq |-> ins.seq,
                       lastrowid |-> ins.lastrowid, tag_ids |-> ids],
                      Tail(names))

\* Database.upsert_tags
upsert_tags(tbl, sq, names) ==
  IF cleaned_names(names) = <<>>
  THEN [table |-> tbl, seq |-> sq, lastrowid |-> 0, tag_ids |-> <<>>]
  ELSE upsert_loop([table |-> tbl, seq |-> sq, lastrowid |-> 0,
                    tag_ids |-> <<>>], cleaned_names(names))

\* number of join rows for a pair
Copies(rows, pair) == CopiesIn(pair, rows)

\* the insert as it would be on a join table without its PRIMARY KEY
InsertLinkNoKey(rows, imgs, tgs, image_id, tag_id) ==
  IF image_id \notin DOMAIN imgs \/ tag_id \notin DOMAIN tgs
  THEN [rows |-> rows, error |-> "IntegrityError"]
  ELSE [rows |-> rows (+) SetToBag({<<image_id, tag_id>>}), error |-> ""]

\* INSERT OR IGNORE INTO image_tags (image_id, tag_id) VALUES (?, ?):
\* the PRIMARY KEY conflict is ignored, the FOREIGN KEY violation is not
InsertOrIgnoreLink(rows, imgs, tgs, image_id, tag_id) ==
  IF BagIn(<<image_id, tag_id>>, rows)
  THEN [rows |-> rows, error |-> ""]
  ELSE IF image_id \notin DOMAIN imgs \/ tag_id \notin DOMAIN tgs
       THEN [rows |-> rows, error |-> "IntegrityError"]
       ELSE [rows |-> rows (+) SetToBag({<<image_id, tag_id>>}), error |-> ""]

\* conn.executemany(...): one statement per id, stopping at the first error
RECURSIVE executemany_links(_, _, _, _, _)
executemany_links(rows, imgs, tgs, image_id, ids) ==
  IF ids = <<>> THEN [rows |-> rows, error |-> ""]
  ELSE LET ins == InsertOrIgnoreLink(rows, imgs, tgs, image_id, Head(ids))
       IN IF ins.error # "" THEN ins
          ELSE executemany_links(ins.rows, imgs, tgs, image_id, Tail(ids))

\* link_tags_to_image on a connection that commits each statement as it runs
link_tags_to_image_autocommit(rows, imgs, tgs, image_id, ids) ==
  IF ids = <<>> THEN [rows |-> rows, error |-> ""]
  ELSE executemany_links(rows, imgs, tgs, image_id, ids)

\* Database.link_tags_to_image: `with conn` commits, or rolls back when the
\* block raises
link_tags_to_image(rows, imgs, tgs, image_id, ids) ==
  IF ids = <<>> THEN [rows |-> rows, error |-> ""]
  ELSE LET res == executemany_links(rows, imgs, tgs, image_id, ids)
       IN IF res.error # "" THEN [rows |-> rows, error |-> res.error]
          ELSE res

\* the join rows DELETE FROM image_tags WHERE image_id = ? removes
RowsOfImage(rows, image_id) == {p \in BagToSet(rows) : p[1] = image_id}

\* a bag without the pairs in S
BagWithout(rows, S) == [p \in BagToSet(rows) \ S |-> rows[p]]

\* clear_tags as it would be with the WHERE clause left out
clear_tags_all(rows, image_id) == EmptyBag

\* Database.clear_tags
clear_tags(rows, image_id) == BagWithout(rows, RowsOfImage(rows, image_id))

\* cursor.rowcount of the DELETE
clear_rowcount(rows, image_id) ==
  BagCardinality(rows) - BagCardinality(clear_tags(rows, image_id))

\* update_image_metadata as it would be without its WHERE clause
update_image_metadata_all(tbl, image_id, description, processed_flag) ==
  [i \in DOMAIN tbl |->
     [tbl[i] EXCEPT !.description = description,
                    !.processed_flag = int(processed_flag)]]

\* Database.update_image_metadata
update_image_metadata(tbl, image_id, description, processed_flag) ==
  [i \in DOMAIN tbl |->
     IF i = image_id
     THEN [tbl[i] EXCEPT !.description = description,
                         !.processed_flag = int(processed_flag)]
     ELSE tbl[i]]

\* BINARY collation: the code point of each character the inputs use
Ord(c) ==
  CASE c = "\t" -> 9 [] c = "\n" -> 10 [] c = "\r" -> 13 [] c = " " -> 32
    [] c = "A" -> 65 [] c = "a" -> 97

\* s sorts before t, or is t
RECURSIVE NameLeq(_, _)
NameLeq(s, t) ==
  IF s = <<>> THEN TRUE
  ELSE IF t = <<>> THEN FALSE
  ELSE IF Head(s) = Head(t) THEN NameLeq(Tail(s), Tail(t))
  ELSE Ord(Head(s)) < Ord(Head(t))

\* n copies of x
RECURSIVE Repeat(_, _)
Repeat(x, n) == IF n = 0 THEN <<>> ELSE <<x>> \o Repeat(x, n - 1)

\* ORDER BY t.name ASC over the joined rows in S
RECURSIVE OrderByName(_, _, _)
OrderByName(S, rows, tgs) ==
  IF S = {} THEN <<>>
  ELSE LET p == CHOOSE q \in S : \A r \in S : NameLeq(tgs[q[2]], tgs[r[2]])
       IN Repeat(tgs[p[2]], rows[p]) \o OrderByName(S \ {p}, rows, tgs)

\* Database.get_tags_for_image
get_tags_for_image(rows, tgs, image_id) ==
  OrderByName({q \in RowsOfImage(rows, image_id) : q[2] \in DOMAIN tgs},
              rows, tgs)

\* the characters of the str values the inputs use
chars(s) ==
  CASE s = "" -> <<>>
    [] s = "d" -> <<"d">>
    [] s = " d " -> <<" ", "d", " ">>
    [] s = "ca" -> <<"c", "a">>
    [] s = "É" -> <<"É">>
    [] s = "x" -> <<"x">>
    [] s = "dog" -> <<"d", "o", "g">>
    [] s = "cat" -> <<"c", "a", "t">>
    [] s = "test" -> <<"t", "e", "s", "t">>
    [] s = "1girl" -> <<"1", "g", "i", "r", "l">>
    [] s = "indoors" -> <<"i", "n", "d", "o", "o", "r", "s">>

\* the str with the given characters
Strings ==
  {"", "d", " d ", "ca", "É", "x", "dog", "cat", "test", "1girl", "indoors"}
str(cs) == CHOOSE s \in Strings : chars(s) = cs

\* the case folding of LIKE: SQLite folds the 26 ASCII letters and no other
\* character
UpperToLower(c) ==
  CASE c = "A" -> "a"
    [] c = "C" -> "c"
    [] OTHER -> c

\* LIKE compared byte for byte, as GLOB would
like_binary(pattern, text) ==
  LET RECURSIVE m(_, _)
      m(p, t) ==
        IF p = <<>> THEN t = <<>>
        ELSE IF Head(p) = "%"
             THEN m(Tail(p), t) \/ (t # <<>> /\ m(p, Tail(t)))
        ELSE IF t = <<>> THEN FALSE
        ELSE (Head(p) = "_" \/ Head(p) = Head(t)) /\ m(Tail(p), Tail(t))
  IN m(pattern, text)

\* text LIKE pattern: % matches any run of characters, _ any one character,
\* every other character itself up to ASCII case
RECURSIVE like(_, _)
like(pattern, text) ==
  IF pattern = <<>> THEN text = <<>>
  ELSE IF Head(pattern) = "%"
       THEN like(Tail(pattern), text)
            \/ (text # <<>> /\ like(pattern, Tail(text)))
  ELSE IF text = <<>> THEN FALSE
  ELSE /\ \/ Head(pattern) = "_"
          \/ UpperToLower(Head(pattern)) = UpperToLower(Head(text))
       /\ like(Tail(pattern), Tail(text))

\* a signature: the parameter names a call may pass by keyword, and those
\* it must pass
get_images_signature ==
  [names |-> {"limit", "offset"}, required |-> {}]
search_images_signature ==
  [names |-> {"query", "limit", "offset"}, required |-> {"query"}]

\* binding the keyword arguments of a call: TypeError for a name the
\* signature does not have or a required one the call leaves out
Bind(signature, kwargs) ==
  IF /\ DOMAIN kwargs \subseteq signature.names
     /\ signature.required \subseteq DOMAIN kwargs
  THEN ""
  ELSE "TypeError"

\* the argument passed, or the parameter's default
Arg(kwargs, name, default) ==
  IF name \in DOMAIN kwargs THEN kwargs[name] ELSE default

\* a call without arguments
NoArguments == [name \in {} |-> 0]

\* dict(row) of SELECT id, path, description, processed_flag, created_at
RowDict(tbl, i) ==
  [id |-> i, path |-> tbl[i].path, description |-> tbl[i].description,
   processed_flag |-> tbl[i].processed_flag, created_at |-> tbl[i].created_at]

\* ORDER BY created_at DESC over the images in S: every order of the rows
\* with no older row before a newer one (rows of one second come in an
\* order SQL leaves open)
RECURSIVE OrderByCreatedDesc(_, _)
OrderByCreatedDesc(tbl, S) ==
  IF S = {} THEN {<<>>}
  ELSE UNION {{<<RowDict(tbl, i)>> \o rest :
                 rest \in OrderByCreatedDesc(tbl, S \ {i})} :
              i \in {j \in S : \A k \in S :
                                 tbl[k].created_at <= tbl[j].created_at}}

\* LIMIT ? OFFSET ?: a negative limit is no limit, a negative offset is 0
LimitOffset(result, limit, offset) ==
  LET first == IF offset < 0 THEN 1 ELSE offset + 1
      final == IF limit < 0 \/ first + limit - 1 > Len(result)
               THEN Len(result) ELSE first + limit - 1
  IN SubSeq(result, first, final)

\* what a read gives back: the exception it raises or the rows it returns
Rows(result) == [error |-> "", rows |-> result]
ReadRaised(exc) == [error |-> exc, rows |-> <<>>]

\* Database.get_images, called with keyword arguments: the outcomes the
\* call can have
get_images(tbl, kwargs) ==
  IF Bind(get_images_signature, kwargs) # ""
  THEN {ReadRaised(Bind(get_images_signature, kwargs))}
  ELSE {Rows(LimitOffset(result, Arg(kwargs, "limit", 100),
                         Arg(kwargs, "offset", 0))) :
          result \in OrderByCreatedDesc(tbl, DOMAIN tbl)}

\* the images the WHERE clause of search_images keeps: the LEFT JOINs give
\* one row per join row of the image (one row of NULLs when it has none),
\* and DISTINCT over the image's columns leaves one row per image
SearchWhere(tbl, tgs, rows, pattern) ==
  {i \in DOMAIN tbl :
     \/ like(pattern, chars(tbl[i].description))
     \/ \E p \in BagToSet(rows) :
          /\ p[1] = i
          /\ p[2] \in DOMAIN tgs
          /\ like(pattern, tgs[p[2]])}

\* Database.search_images, called with keyword arguments
search_images(tbl, tgs, rows, kwargs) ==
  IF Bind(search_images_signature, kwargs) # ""
  THEN {ReadRaised(Bind(search_images_signature, kwargs))}
  ELSE LET pattern == <<"%">> \o strip(kwargs["query"]) \o <<"%">>
       IN {Rows(LimitOffset(result, Arg(kwargs, "limit", 100),
                            Arg(kwargs, "offset", 0))) :
             result \in OrderByCreatedDesc(
                          tbl, SearchWhere(tbl, tgs, rows, pattern))}

\* GalleryView._current_sort_order
_current_sort_order(value) ==
  IF Len(value) >= 3 /\ SubSeq(value, 1, 3) = <<"a", "s", "c">>
  THEN "asc" ELSE "desc"

\* GalleryView._fetch_images: value is the text of the search field,
\* sort_value the value of the sort dropdown
_fetch_images(tbl, tgs, rows, value, sort_value) ==
  LET query == strip(value)
      sort_order == _current_sort_order(sort_value)
  IN IF query # <<>>
     THEN search_images(tbl, tgs, rows,
                        ("query" :> query) @@ ("limit" :> 200)
                          @@ ("order" :> sort_order))
     ELSE get_images(tbl, ("limit" :> 200) @@ ("order" :> sort_order))

\* --------------------------------------------------------- image_details.py
\* Database.get_image_details: None for an id without a row, else the row
\* with the names of its tags
get_image_details(tbl, rows, tgs, image_id) ==
  IF image_id \notin DOMAIN tbl
  THEN [none |-> TRUE, tags |-> <<>>]
  ELSE [none |-> FALSE, tags |-> get_tags_for_image(rows, tgs, image_id)]

\* ImageDetailsDialog.__init__ with _load_details, then show_image_editor:
\* the dialog dismisses itself when the image has no row.  pc is the place
\* of _handle_save: "editing" while it does not run, then the write it has
\* just committed; tag_ids is its local of that name
show_image_editor(tbl, rows, tgs, image_id) ==
  LET details == get_image_details(tbl, rows, tgs, image_id)
  IN [open |-> TRUE, image_id |-> image_id,
      tags |-> IF details.none THEN <<>> ELSE details.tags,
      pc |-> "editing", tag_ids |-> <<>>]

\* t in tags
InList(t, list) == \E k \in 1..Len(list) : list[k] = t

\* ImageDetailsDialog._handle_add_tag, the field holding value
_handle_add_tag(list, value) ==
  IF strip(value) # <<>> /\ ~InList(strip(value), list)
  THEN Append(list, strip(value))
  ELSE list

\* ImageDetailsDialog._remove_tag
_remove_tag(list, tag) == SelectSeq(list, LAMBDA t : t # tag)

\* description = (self.description_field.value or "").strip()
field_description(value) == str(strip(chars(value)))

\* ------------------------------------------------------- Python values
\* a JSON / Python value: its type name and, by type, its content (b for a
\* bool, n for an int or the number of keys of a dict, s for a str, l for
\* the elements of a list)
PyNone == [t |-> "NoneType", b |-> FALSE, n |-> 0, s |-> "", l |-> <<>>]
PyBool(x) == [t |-> "bool", b |-> x, n |-> 0, s |-> "", l |-> <<>>]
PyInt(x) == [t |-> "int", b |-> FALSE, n |-> x, s |-> "", l |-> <<>>]
PyStr(x) == [t |-> "str", b |-> FALSE, n |-> 0, s |-> x, l |-> <<>>]
PyList(x) == [t |-> "list", b |-> FALSE, n |-> 0, s |-> "", l |-> x]
PyDict(keys) == [t |-> "dict", b |-> FALSE, n |-> keys, s |-> "", l |-> <<>>]
\* a key the dict does not have
Absent == [t |-> "absent", b |-> FALSE, n |-> 0, s |-> "", l |-> <<>>]
\* list elements
StrElem(x) == [t |-> "str", s |-> x]
IntElem(x) == [t |-> "int", s |-> x]

\* bool(v), the truth value `or` and `if` use
truthy(v) ==
  CASE v.t = "NoneType" -> FALSE
    [] v.t = "bool" -> v.b
    [] v.t = "int" -> v.n # 0
    [] v.t = "str" -> v.s # ""
    [] v.t = "list" -> v.l # <<>>
    [] v.t = "dict" -> v.n > 0

\* dict.get(key): None for a missing key
get(v) == IF v.t = "absent" THEN PyNone ELSE v

\* dict.get(key, default)
get_default(v, default) == IF v.t = "absent" THEN default ELSE v

\* a or b
or(a, b) == IF truthy(a) THEN a ELSE b

\* ---------------------------------------------------------- ai_engine.py
MOCK_RESPONSE ==
  [description |-> PyStr("[DEV] A placeholder description of a cat."),
   tags |-> PyList(<<StrElem("test"), StrElem("cat"), StrElem("1girl"),
                     StrElem("indoors")>>),
   nsfw |-> PyBool(FALSE)]

\* {**MOCK_RESPONSE, "description": marker}
Marked(marker) == [MOCK_RESPONSE EXCEPT !.description = PyStr(marker)]

ReadFailed == "[DEV] Unable to read image."
Unreachable == "[DEV] AI service unreachable."
Unexpected == "[DEV] Unexpected AI response."

\* the nested document: the four keys the code reads
Doc(description, caption, tgs, nsfw) ==
  [description |-> description, caption |-> caption, tags |-> tgs,
   nsfw |-> nsfw]
NoDoc == Doc(Absent, Absent, Absent, Absent)

Decoded(v) == [ok |-> TRUE, value |-> v, doc |-> NoDoc]
DecodedDoc(d) == [ok |-> TRUE, value |-> PyDict(1), doc |-> d]
NotJson == [ok |-> FALSE, value |-> PyNone, doc |-> NoDoc]

\* the texts the model's endpoint puts in the `response` field
NestedTexts ==
  {"not json", "", "null", "5", "[1]", "\"hi\"", "{}",
   "{\"description\": \"a dog\"}",
   "{\"description\": \"a dog\", \"nsfw\": true}",
   "{\"description\": \"a dog\", \"tags\": [\"dog\"], \"nsfw\": true}",
   "{\"description\": \"a dog\", \"tags\": []}",
   "{\"caption\": \"a cap\", \"tags\": [\"x\"]}",
   "{\"description\": null, \"caption\": \"a cap\"}",
   "{\"description\": \"\", \"caption\": \"\", \"tags\": [\"x\"], \"nsfw\": true}",
   "{\"tags\": [\"x\"], \"nsfw\": false}",
   "{\"description\": \"a dog\", \"tags\": \"dog\"}",
   "{\"description\": \"a dog\", \"tags\": \"\"}",
   "{\"description\": \"a dog\", \"tags\": 0}",
   "{\"description\": \"a dog\", \"tags\": 7}",
   "{\"description\": \"a dog\", \"tags\": {}}",
   "{\"description\": \"a dog\", \"tags\": {\"k\": 1}}",
   "{\"description\": 5, \"tags\": [1]}",
   "{\"description\": [1], \"tags\": []}",
   "{\"description\": \"a dog\", \"tags\": [\"dog\"], \"nsfw\": \"no\"}",
   "{\"description\": \"a dog\", \"tags\": [\"dog\"], \"nsfw\": 0}"}

\* json.loads(text) on each of those texts
json_loads(text) ==
  CASE text = "not json" -> NotJson
    [] text = "" -> NotJson
    [] text = "null" -> Decoded(PyNone)
    [] text = "5" -> Decoded(PyInt(5))
    [] text = "[1]" -> Decoded(PyList(<<IntElem("1")>>))
    [] text = "\"hi\"" -> Decoded(PyStr("hi"))
    [] text = "{}" ->
         [ok |-> TRUE, value |-> PyDict(0), doc |-> NoDoc]
    [] text = "{\"description\": \"a dog\"}" ->
         DecodedDoc(Doc(PyStr("a dog"), Absent, Absent, Absent))
    [] text = "{\"description\": \"a dog\", \"nsfw\": true}" ->
         DecodedDoc(Doc(PyStr("a dog"), Absent, Absent, PyBool(TRUE)))
    [] text = "{\"description\": \"a dog\", \"tags\": [\"dog\"], \"nsfw\": true}" ->
         DecodedDoc(Doc(PyStr("a dog"), Absent, PyList(<<StrElem("dog")>>),
                        PyBool(TRUE)))
    [] text = "{\"description\": \"a dog\", \"tags\": []}" ->
         DecodedDoc(Doc(PyStr("a dog"), Absent, PyList(<<>>), Absent))
    [] text = "{\"caption\": \"a cap\", \"tags\": [\"x\"]}" ->
         DecodedDoc(Doc(Absent, PyStr("a cap"), PyList(<<StrElem("x")>>),
                        Absent))
    [] text = "{\"description\": null, \"caption\": \"a cap\"}" ->
         DecodedDoc(Doc(PyNone, PyStr("a cap"), Absent, Absent))
    [] text = "{\"description\": \"\", \"caption\": \"\", \"tags\": [\"x\"], \"nsfw\": true}" ->
         DecodedDoc(Doc(PyStr(""), PyStr(""), PyList(<<StrElem("x")>>),
                        PyBool(TRUE)))
    [] text = "{\"tags\": [\"x\"], \"nsfw\": false}" ->
         DecodedDoc(Doc(Absent, Absent, PyList(<<StrElem("x")>>),
                        PyBool(FALSE)))
    [] text = "{\"description\": \"a dog\", \"tags\": \"dog\"}" ->
         DecodedDoc(Doc(PyStr("a dog"), Absent, PyStr("dog"), Absent))
    [] text = "{\"description\": \"a dog\", \"tags\": \"\"}" ->
         DecodedDoc(Doc(PyStr("a dog"), Absent, PyStr(""), Absent))
    [] text = "{\"description\": \"a dog\", \"tags\": 0}" ->
         DecodedDoc(Doc(PyStr("a dog"), Absent, PyInt(0), Absent))
    [] text = "{\"description\": \"a dog\", \"tags\": 7}" ->
         DecodedDoc(Doc(PyStr("a dog"), Absent, PyInt(7), Absent))
    [] text = "{\"description\": \"a dog\", \"tags\": {}}" ->
         DecodedDoc(Doc(PyStr("a dog"), Absent, PyDict(0), Absent))
    [] text = "{\"description\": \"a dog\", \"tags\": {\"k\": 1}}" ->
         DecodedDoc(Doc(PyStr("a dog"), Absent, PyDict(1), Absent))
    [] text = "{\"description\": 5, \"tags\": [1]}" ->
         DecodedDoc(Doc(PyInt(5), Absent, PyList(<<IntElem("1")>>), Absent))
    [] text = "{\"description\": [1], \"tags\": []}" ->
         DecodedDoc(Doc(PyList(<<IntElem("1")>>), Absent, PyList(<<>>),
                        Absent))
    [] text = "{\"description\": \"a dog\", \"tags\": [\"dog\"], \"nsfw\": \"no\"}" ->
         DecodedDoc(Doc(PyStr("a dog"), Absent, PyList(<<StrElem("dog")>>),
                        PyStr("no")))
    [] text = "{\"description\": \"a dog\", \"tags\": [\"dog\"], \"nsfw\": 0}" ->
         DecodedDoc(Doc(PyStr("a dog"), Absent, PyList(<<StrElem("dog")>>),
                        PyInt(0)))

\* the decoded body of the HTTP response: its type and, for a dict, its
\* `response` entry
Envelope(t, response) == [t |-> t, response |-> response]

Envelopes ==
  {Envelope("list", Absent), Envelope("NoneType", Absent),
   Envelope("int", Absent), Envelope("str", Absent),
   Envelope("dict", Absent), Envelope("dict", PyNone),
   Envelope("dict", PyInt(5)), Envelope("dict", PyDict(1)),
   Envelope("dict", PyList(<<>>))}
  \cup {Envelope("dict", PyStr(text)) : text \in NestedTexts}

\* the classes an exception is an instance of
Classes(exc) ==
  CASE exc = "" -> {}
    [] exc = "ConnectionError" -> {"ConnectionError", "RequestException", "OSError"}
    [] exc = "Timeout" -> {"Timeout", "RequestException", "OSError"}
    [] exc = "HTTPError" -> {"HTTPError", "RequestException", "OSError"}
    [] exc = "requests.JSONDecodeError" ->
         {"requests.JSONDecodeError", "RequestException", "OSError",
          "JSONDecodeError", "ValueError"}
    [] exc = "JSONDecodeError" -> {"JSONDecodeError", "ValueError"}
    [] exc = "AttributeError" -> {"AttributeError"}
    [] exc = "FileNotFoundError" -> {"FileNotFoundError", "OSError"}

\* `except handled:` catches exc
Catches(handled, exc) == Classes(exc) \cap handled # {}

\* AIEngine._encode_image: read_bytes() raises for a path it cannot read
_encode_image(image_path, readable) ==
  IF image_path \in readable THEN "" ELSE "FileNotFoundError"

\* response.raise_for_status(): HTTPError for a 4xx or 5xx status
raise_for_status(status) ==
  IF 400 <= status /\ status < 600 THEN "HTTPError" ELSE ""

\* response.json(): the decoded body, or the JSON error of the installed
\* requests (json_error: requests.JSONDecodeError since 2.27, the json
\* module's JSONDecodeError before)
response_json(body, json_error) ==
  IF body.json THEN [raised |-> "", data |-> body.data]
  ELSE [raised |-> json_error, data |-> body.data]

Parsed(payload) == [raised |-> "", none |-> FALSE, value |-> payload]
ParsedNone == [raised |-> "", none |-> TRUE, value |-> MOCK_RESPONSE]
ParseRaised(exc) == [raised |-> exc, none |-> TRUE, value |-> MOCK_RESPONSE]

\* AIEngine._parse_ai_response
_parse_ai_response(response_data) ==
  IF response_data.t # "dict" THEN ParseRaised("AttributeError")
  ELSE LET text == get(response_data.response)
       IN IF text.t # "str" THEN ParsedNone
          ELSE LET parsed == json_loads(text.s)
               IN IF ~parsed.ok THEN ParsedNone
                  ELSE IF parsed.value.t # "dict"
                  THEN ParseRaised("AttributeError")
                  ELSE LET description == or(get(parsed.doc.description),
                                             get(parsed.doc.caption))
                           tgs == or(get(parsed.doc.tags), PyList(<<>>))
                       IN Parsed(
                            [description |->
                               or(description, MOCK_RESPONSE.description),
                             tags |-> IF tgs.t = "list" THEN tgs
                                      ELSE MOCK_RESPONSE.tags,
                             nsfw |-> PyBool(truthy(
                                        get_default(parsed.doc.nsfw,
                                                    PyBool(FALSE))))])

\* what a call gives back: the exception it lets through or the payload it
\* returns, and the file reads and HTTP requests it made
Returned(payload, reads, posts) ==
  [raised |-> "", payload |-> payload, reads |-> reads, posts |-> posts]
Raised(exc, reads, posts) ==
  [raised |-> exc, payload |-> MOCK_RESPONSE, reads |-> reads, posts |-> posts]

\* the try block around the HTTP call, after the request has been sent
analyze_response(env) ==
  LET status_exc == raise_for_status(env.status)
      js == response_json(env.body, env.json_error)
      parsed == _parse_ai_response(js.data)
      exc == IF env.transport # "ok" THEN env.transport
             ELSE IF status_exc # "" THEN status_exc
             ELSE IF js.raised # "" THEN js.raised
             ELSE parsed.raised
  IN IF exc = ""
     THEN Returned(IF parsed.none THEN MOCK_RESPONSE ELSE parsed.value, 1, 1)
     ELSE IF Catches({"RequestException"}, exc)
     THEN Returned(Marked(Unreachable), 1, 1)
     ELSE IF Catches({"JSONDecodeError", "KeyError", "TypeError"}, exc)
     THEN Returned(Marked(Unexpected), 1, 1)
     ELSE Raised(exc, 1, 1)

\* analyze_image with the mock-mode test left out
analyze_image_always_live(use_real, image_path, env) ==
  IF Catches({"OSError"}, _encode_image(image_path, env.readable))
  THEN Returned(Marked(ReadFailed), 1, 0)
  ELSE analyze_response(env)

\* analyze_image with raise_for_status() left out
analyze_image_any_status(use_real, image_path, env) ==
  IF ~use_real THEN Returned(MOCK_RESPONSE, 0, 0)
  ELSE IF Catches({"OSError"}, _encode_image(image_path, env.readable))
  THEN Returned(Marked(ReadFailed), 1, 0)
  ELSE analyze_response([env EXCEPT !.status = 200])

\* AIEngine.analyze_image
analyze_image(use_real, image_path, env) ==
  IF ~use_real THEN Returned(MOCK_RESPONSE, 0, 0)
  ELSE IF Catches({"OSError"}, _encode_image(image_path, env.readable))
  THEN Returned(Marked(ReadFailed), 1, 0)
  ELSE analyze_response(env)

\* ---------------------------------------------------------- gallery_view.py
\* a connection closed with nothing committed
with_connection_uncommitted(before, after, error) == before

\* `with self._connect() as conn:` around a write: the connection commits
\* when the block returns and rolls back when it raises
with_connection(before, after, error) ==
  IF error = "" THEN after ELSE before

\* analysis.get("description", ""): the value under the key, of any type
analysis_description(analysis) == analysis.description

\* a value bound to a parameter of a statement and stored in a TEXT column:
\* a str as it is, a number as its decimal text (a bool is the int 1 or 0);
\* sqlite3 does not bind a list or a dict.  The description of an analysis
\* is never None (ai_engine.py line 86)
bind_text(v) ==
  CASE v.t = "str" -> [error |-> "", value |-> v.s]
    [] v.t = "int" -> [error |-> "", value |-> ToString(v.n)]
    [] v.t = "bool" -> [error |-> "", value |-> IF v.b THEN "1" ELSE "0"]
    [] v.t \in {"list", "dict"} ->
         [error |-> "ProgrammingError", value |-> ""]

\* the names in analysis.get("tags", []), as upsert_tags takes them: an entry
\* that is not a str has no strip()
analysis_names(analysis) ==
  IF \E k \in 1..Len(analysis.tags.l) : analysis.tags.l[k].t # "str"
  THEN [raised |-> "AttributeError", names |-> <<>>]
  ELSE [raised |-> "",
        names |-> [k \in 1..Len(analysis.tags.l) |->
                     chars(analysis.tags.l[k].s)]]

\* ----------------------------------------------------------- gateway steps
ImagePaths == {"cat.jpg", "missing.jpg"}
Readables == {{}, {"cat.jpg"}}
Transports == {"ok", "ConnectionError", "Timeout"}
Statuses == {200, 204, 300, 404, 500}
JsonErrors == {"requests.JSONDecodeError", "JSONDecodeError"}
Bodies ==
  {[json |-> FALSE, data |-> Envelope("NoneType", Absent)]}
  \cup {[json |-> TRUE, data |-> e] : e \in Envelopes}

Environments ==
  [readable : Readables, transport : Transports, status : Statuses,
   body : Bodies, json_error : JsonErrors]

NoEnvironment ==
  [readable |-> {}, transport |-> "ok", status |-> 200,
   body |-> [json |-> FALSE, data |-> Envelope("NoneType", Absent)],
   json_error |-> "JSONDecodeError"]

NoAnalysis ==
  [called |-> FALSE, image_path |-> "", env |-> NoEnvironment,
   result |-> Returned(MOCK_RESPONSE, 0, 0)]

\* one call of the gateway; the filesystem and the endpoint behave as ai.env
AnalyzeImage ==
  \E image_path \in ImagePaths :
    /\ ai' = [ai EXCEPT !.called = TRUE, !.image_path = image_path,
                        !.result = analyze_image(use_real_ai, image_path,
                                                 ai.env)]
    /\ UNCHANGED <<images, tags, image_tags, seq, clock, last, use_real_ai,
                 editor, importer>>

\* ------------------------------------------------------------ store steps
NoCall ==
  [op |-> "", path |-> "", description |-> "", processed_flag |-> FALSE,
   image_id |-> 0, names |-> <<>>, tag_ids |-> <<>>, ret_id |-> 0,
   ret_ids |-> <<>>, error |-> "", rowcount |-> 0, query |-> <<>>,
   kwargs |-> NoArguments, rows |-> <<>>]

\* no editor dialog on the page
NoEditor ==
  [open |-> FALSE, image_id |-> 0, tags |-> <<>>, pc |-> "editing",
   tag_ids |-> <<>>]

\* no import under way
NoImport ==
  [pc |-> "idle", stopped |-> FALSE, path |-> "", image_id |-> 0,
   analysis |-> MOCK_RESPONSE, tag_ids |-> <<>>]

InitStore ==
  /\ images = <<>>
  /\ tags = <<>>
  /\ image_tags = EmptyBag
  /\ seq = [images |-> 0, tags |-> 0]
  /\ clock = 0
  /\ last = NoCall

\* CURRENT_TIMESTAMP moves on between calls
Tick ==
  /\ clock < MaxClock
  /\ clock' = clock + 1
  /\ UNCHANGED <<images, tags, image_tags, seq, last, use_real_ai, ai,
                 editor, importer>>

\* add_image with its arguments drawn from the given sets, the counter
\* capped at cap
AddImageOf(paths, descriptions, flags, cap) ==
  \E path \in paths, description \in descriptions, processed_flag \in flags :
    /\ seq.images < cap
    /\ LET res == add_image(images, seq.images, path, description,
                            processed_flag, clock)
       IN /\ images' = res.table
          /\ seq' = [seq EXCEPT !.images = res.seq]
          /\ last' = [NoCall EXCEPT !.op = "add_image", !.path = path,
                        !.description = description,
                        !.processed_flag = processed_flag,
                        !.ret_id = res.ret]
    /\ UNCHANGED <<tags, image_tags, clock, use_real_ai, ai,
                   editor, importer>>

AddImage == AddImageOf(Paths, Descriptions, BOOLEAN, MaxImageRowid)

UpdateImageMetadata ==
  \E image_id \in 1..MaxImageRowid, description \in Descriptions,
     processed_flag \in BOOLEAN :
    /\ images' = update_image_metadata(images, image_id, description,
                                       processed_flag)
    /\ last' = [NoCall EXCEPT !.op = "update_image_metadata",
                  !.image_id = image_id, !.description = description,
                  !.processed_flag = processed_flag,
                  !.rowcount = IF image_id \in DOMAIN images THEN 1 ELSE 0]
    /\ UNCHANGED <<tags, image_tags, seq, clock, use_real_ai, ai,
                 editor, importer>>

\* upsert_tags with lists of at most maxlen names, the counter capped at cap
UpsertTags(maxlen, cap) ==
  \E names \in SeqsUpTo(RawNames, maxlen) :
    /\ seq.tags + Len(cleaned_names(names)) <= cap
    /\ LET res == upsert_tags(tags, seq.tags, names)
       IN /\ tags' = res.table
          /\ seq' = [seq EXCEPT !.tags = res.seq]
          /\ last' = [NoCall EXCEPT !.op = "upsert_tags", !.names = names,
                        !.ret_ids = res.tag_ids]
    /\ UNCHANGED <<images, image_tags, clock, use_real_ai, ai,
                 editor, importer>>

LinkTagsToImage ==
  \E image_id \in 1..MaxImageRowid,
     ids \in SeqsUpTo(1..MaxTagRowid, MaxTagIds) :
    /\ LET res == link_tags_to_image(image_tags, images, tags, image_id, ids)
       IN /\ image_tags' = res.rows
          /\ last' = [NoCall EXCEPT !.op = "link_tags_to_image",
                        !.image_id = image_id, !.tag_ids = ids,
                        !.error = res.error]
    /\ UNCHANGED <<images, tags, seq, clock, use_real_ai, ai,
                 editor, importer>>

ClearTags ==
  \E image_id \in 1..MaxImageRowid :
    /\ image_tags' = clear_tags(image_tags, image_id)
    /\ last' = [NoCall EXCEPT !.op = "clear_tags", !.image_id = image_id,
                  !.rowcount = clear_rowcount(image_tags, image_id)]
    /\ UNCHANGED <<images, tags, seq, clock, use_real_ai, ai,
                 editor, importer>>

StoreUpsertTags == UpsertTags(MaxStoreNames, MaxTagRowid)

TagsUpsertTags == UpsertTags(MaxNames, MaxUpsertRowid)

\* ------------------------------------------------------------- read steps
SearchDescriptions == {"", "ca", "É"}
Queries == {<<"a">>, <<" ", "C", "A", " ">>, <<"é">>, <<" ">>, <<"_">>}
Limits == {1, 100}
SortValues == {<<"a", "s", "c">>, <<"d", "e", "s", "c">>}

GetImagesCalls ==
  {NoArguments, "limit" :> 1, ("limit" :> 100) @@ ("offset" :> 1)}

SearchImagesCalls ==
  {("query" :> query) @@ ("limit" :> limit) :
     query \in Queries, limit \in Limits}

\* add_image(path, description), as the search is tried on
SearchAddImage ==
  AddImageOf(Paths, SearchDescriptions, {FALSE}, MaxSearchRowid)

GetImages ==
  \E kwargs \in GetImagesCalls :
    \E res \in get_images(images, kwargs) :
      /\ last' = [NoCall EXCEPT !.op = "get_images", !.kwargs = kwargs,
                    !.error = res.error, !.rows = res.rows]
      /\ UNCHANGED <<images, tags, image_tags, seq, clock, use_real_ai, ai,
                     editor, importer>>

SearchImages ==
  \E kwargs \in SearchImagesCalls :
    \E res \in search_images(images, tags, image_tags, kwargs) :
      /\ last' = [NoCall EXCEPT !.op = "search_images",
                    !.query = kwargs["query"], !.kwargs = kwargs,
                    !.error = res.error, !.rows = res.rows]
      /\ UNCHANGED <<images, tags, image_tags, seq, clock, use_real_ai, ai,
                     editor, importer>>

\* a refresh of the gallery view: the search field holds value, the sort
\* dropdown sort_value
FetchImages ==
  \E value \in Queries \cup {<<>>}, sort_value \in SortValues :
    \E res \in _fetch_images(images, tags, image_tags, value, sort_value) :
      /\ last' = [NoCall EXCEPT !.op = "_fetch_images", !.query = value,
                    !.kwargs = "order" :> _current_sort_order(sort_value),
                    !.error = res.error, !.rows = res.rows]
      /\ UNCHANGED <<images, tags, image_tags, seq, clock, use_real_ai, ai,
                     editor, importer>>

NextStore ==
  \/ AddImage
  \/ UpdateImageMetadata
  \/ StoreUpsertTags
  \/ LinkTagsToImage
  \/ ClearTags

\* the description field and the tag field of the editor
FieldValues == {"", " d "}

\* a card of the gallery opens the editor on its image
OpenEditor ==
  \E image_id \in 1..MaxSearchRowid :
    /\ ~editor.open
    /\ image_id \in DOMAIN images
    /\ editor' = show_image_editor(images, image_tags, tags, image_id)
    /\ UNCHANGED <<images, tags, image_tags, seq, clock, last, use_real_ai,
                   ai, importer>>

HandleAddTag ==
  \E value \in RawNames :
    /\ editor.open
    /\ editor.pc = "editing"
    /\ Len(editor.tags) < MaxEditorTags
    /\ editor' = [editor EXCEPT !.tags = _handle_add_tag(editor.tags, value)]
    /\ UNCHANGED <<images, tags, image_tags, seq, clock, last, use_real_ai,
                   ai, importer>>

RemoveTag ==
  \E k \in 1..Len(editor.tags) :
    /\ editor.open
    /\ editor.pc = "editing"
    /\ editor' = [editor EXCEPT !.tags = _remove_tag(editor.tags,
                                                     editor.tags[k])]
    /\ UNCHANGED <<images, tags, image_tags, seq, clock, last, use_real_ai,
                   ai, importer>>

\* the close button
DismissEditor ==
  /\ editor.open
  /\ editor.pc = "editing"
  /\ editor' = [editor EXCEPT !.open = FALSE]
  /\ UNCHANGED <<images, tags, image_tags, seq, clock, last, use_real_ai,
                 ai, importer>>

\* the save button, first write: update_image_metadata(image_id,
\* description, processed_flag=True), the description field holding value
SaveUpdate ==
  \E value \in FieldValues :
    /\ editor.open
    /\ editor.pc = "editing"
    /\ seq.tags + Len(cleaned_names(editor.tags)) <= MaxEditorRowid
    /\ images' = with_connection(
                   images,
                   update_image_metadata(images, editor.image_id,
                                         field_description(value), TRUE), "")
    /\ last' = [NoCall EXCEPT !.op = "update_image_metadata",
                  !.image_id = editor.image_id,
                  !.description = field_description(value),
                  !.processed_flag = TRUE,
                  !.rowcount = IF editor.image_id \in DOMAIN images
                               THEN 1 ELSE 0]
    /\ editor' = [editor EXCEPT !.pc = "updated"]
    /\ UNCHANGED <<tags, image_tags, seq, clock, use_real_ai, ai, importer>>

\* second write: clear_tags(image_id)
SaveClearTags ==
  /\ editor.open
  /\ editor.pc = "updated"
  /\ image_tags' = with_connection(image_tags,
                                   clear_tags(image_tags, editor.image_id), "")
  /\ last' = [NoCall EXCEPT !.op = "clear_tags",
                !.image_id = editor.image_id,
                !.rowcount = clear_rowcount(image_tags, editor.image_id)]
  /\ editor' = [editor EXCEPT !.pc = "cleared"]
  /\ UNCHANGED <<images, tags, seq, clock, use_real_ai, ai, importer>>

\* third write: tag_ids = upsert_tags(self.tags)
SaveUpsertTags ==
  /\ editor.open
  /\ editor.pc = "cleared"
  /\ LET res == upsert_tags(tags, seq.tags, editor.tags)
         db == with_connection([tags |-> tags, seq |-> seq.tags],
                               [tags |-> res.table, seq |-> res.seq], "")
     IN /\ tags' = db.tags
        /\ seq' = [seq EXCEPT !.tags = db.seq]
        /\ last' = [NoCall EXCEPT !.op = "upsert_tags",
                      !.names = editor.tags, !.ret_ids = res.tag_ids]
        /\ editor' = [editor EXCEPT !.pc = "upserted",
                                    !.tag_ids = res.tag_ids]
  /\ UNCHANGED <<images, image_tags, clock, use_real_ai, ai, importer>>

\* fourth write and the end of _handle_save: link_tags_to_image(image_id,
\* tag_ids), then on_saved (the gallery's refresh, its search field empty
\* and its sort dropdown at "desc") and, when that returns, _dismiss
SaveLinkTags ==
  /\ editor.open
  /\ editor.pc = "upserted"
  /\ LET res == link_tags_to_image(image_tags, images, tags, editor.image_id,
                                   editor.tag_ids)
     IN /\ image_tags' = res.rows
        /\ last' = [NoCall EXCEPT !.op = "_handle_save",
                      !.image_id = editor.image_id, !.names = editor.tags,
                      !.tag_ids = editor.tag_ids,
                      !.ret_ids = editor.tag_ids, !.error = res.error]
        /\ \E refreshed \in _fetch_images(images, tags, res.rows, <<>>,
                                           <<"d", "e", "s", "c">>) :
             editor' = [editor EXCEPT
                          !.pc = "editing", !.tag_ids = <<>>,
                          !.open = res.error # "" \/ refreshed.error # ""]
  /\ UNCHANGED <<images, tags, seq, clock, use_real_ai, ai, importer>>

\* the process ends between two writes of the save: the database file holds
\* what the connections committed, and the dialog is gone
SaveStop ==
  /\ editor.open
  /\ editor.pc \in {"updated", "cleared", "upserted"}
  /\ editor' = NoEditor
  /\ UNCHANGED <<images, tags, image_tags, seq, clock, last, use_real_ai,
                 ai, importer>>

\* ------------------------------------------------------------ import steps
\* what the endpoint answers while images are imported
ImportTexts ==
  {"[1]",
   "{\"description\": 5, \"tags\": [1]}",
   "{\"description\": [1], \"tags\": []}",
   "{\"description\": \"a dog\", \"tags\": [\"dog\"], \"nsfw\": true}",
   "{\"description\": \"a dog\", \"tags\": []}"}

ImportEnvironments ==
  {[readable |-> {"cat.jpg"}, transport |-> transport, status |-> 200,
    body |-> [json |-> TRUE, data |-> Envelope("dict", PyStr(text))],
    json_error |-> "JSONDecodeError"] :
     transport \in {"ok", "ConnectionError"}, text \in ImportTexts}

\* the steps of the import between its first write and its last
Underway == {"added", "analyzed", "updated", "upserted"}

\* the file picker hands over a file, or the loop reaches its next file:
\* add_image(path)
ImportAddImage ==
  \E path \in ImagePaths :
    /\ importer.pc = "idle" \/ importer.stopped
    /\ seq.images < MaxImportRowid
    /\ LET res == add_image(images, seq.images, path, "", FALSE, clock)
           db == with_connection(
                   [images |-> images, seq |-> seq.images],
                   [images |-> res.table, seq |-> res.seq], "")
       IN /\ images' = db.images
          /\ seq' = [seq EXCEPT !.images = db.seq]
          /\ last' = [NoCall EXCEPT !.op = "add_image", !.path = path,
                        !.ret_id = res.ret]
          /\ importer' = [NoImport EXCEPT !.pc = "added", !.path = path,
                            !.image_id = res.ret]
    /\ UNCHANGED <<tags, image_tags, clock, use_real_ai, ai, editor>>

\* analyze_image(path): an exception it lets through ends the handler
ImportAnalyze ==
  /\ importer.pc = "added"
  /\ ~importer.stopped
  /\ LET res == analyze_image(use_real_ai, importer.path, ai.env)
     IN /\ ai' = [ai EXCEPT !.called = TRUE, !.image_path = importer.path,
                            !.result = res]
        /\ importer' = IF res.raised # ""
                       THEN [importer EXCEPT !.stopped = TRUE]
                       ELSE [importer EXCEPT !.pc = "analyzed",
                                             !.analysis = res.payload]
  /\ UNCHANGED <<images, tags, image_tags, seq, clock, last, use_real_ai,
                 editor>>

\* update_image_metadata(image_id, description, processed_flag=True): a
\* description sqlite3 cannot bind ends the handler
ImportUpdate ==
  /\ importer.pc = "analyzed"
  /\ ~importer.stopped
  /\ LET bound == bind_text(analysis_description(importer.analysis))
     IN /\ images' = with_connection(
                       images,
                       update_image_metadata(images, importer.image_id,
                                             bound.value, TRUE),
                       bound.error)
        /\ last' = [NoCall EXCEPT !.op = "update_image_metadata",
                      !.image_id = importer.image_id,
                      !.description = bound.value, !.processed_flag = TRUE,
                      !.error = bound.error,
                      !.rowcount = IF /\ bound.error = ""
                                      /\ importer.image_id \in DOMAIN images
                                   THEN 1 ELSE 0]
        /\ importer' = IF bound.error # ""
                       THEN [importer EXCEPT !.stopped = TRUE]
                       ELSE [importer EXCEPT !.pc = "updated"]
  /\ UNCHANGED <<tags, image_tags, seq, clock, use_real_ai, ai, editor>>

\* upsert_tags(analysis.get("tags", []))
ImportUpsertTags ==
  /\ importer.pc = "updated"
  /\ ~importer.stopped
  /\ LET arg == analysis_names(importer.analysis)
         res == upsert_tags(tags, seq.tags, arg.names)
         db == with_connection([tags |-> tags, seq |-> seq.tags],
                               [tags |-> res.table, seq |-> res.seq],
                               arg.raised)
     IN /\ db.seq <= MaxImportTagRowid
        /\ tags' = db.tags
        /\ seq' = [seq EXCEPT !.tags = db.seq]
        /\ last' = [NoCall EXCEPT !.op = "upsert_tags", !.names = arg.names,
                      !.ret_ids = res.tag_ids, !.error = arg.raised]
        /\ importer' = IF arg.raised # ""
                       THEN [importer EXCEPT !.stopped = TRUE]
                       ELSE [importer EXCEPT !.pc = "upserted",
                                             !.tag_ids = res.tag_ids]
  /\ UNCHANGED <<images, image_tags, clock, use_real_ai, ai, editor>>

\* link_tags_to_image(image_id, tag_ids), the last write for the file
ImportLinkTags ==
  /\ importer.pc = "upserted"
  /\ ~importer.stopped
  /\ LET res == link_tags_to_image(image_tags, images, tags,
                                   importer.image_id, importer.tag_ids)
     IN /\ image_tags' = res.rows
        /\ last' = [NoCall EXCEPT !.op = "link_tags_to_image",
                      !.image_id = importer.image_id,
                      !.tag_ids = importer.tag_ids, !.error = res.error]
        /\ importer' = IF res.error # ""
                       THEN [importer EXCEPT !.stopped = TRUE]
                       ELSE [importer EXCEPT !.pc = "idle"]
  /\ UNCHANGED <<images, tags, seq, clock, use_real_ai, ai, editor>>

\* the process ends between two writes (a crash, the application killed):
\* the database file holds what the connections committed
ImportStop ==
  /\ importer.pc \in Underway
  /\ ~importer.stopped
  /\ importer' = [importer EXCEPT !.stopped = TRUE]
  /\ UNCHANGED <<images, tags, image_tags, seq, clock, last, use_real_ai,
                 ai, editor>>

\* a fresh database file; the gateway idle, in the default mock mode; the
\* gallery view with no dialog and no import
InitIdle ==
  /\ InitStore
  /\ use_real_ai = FALSE
  /\ ai = NoAnalysis
  /\ editor = NoEditor
  /\ importer = NoImport

\* the store driven by any sequence of its operations within one second of
\* the clock; the gateway idle
SpecStore ==
  /\ InitIdle
  /\ [][NextStore]_vars

\* the images table alone, while the clock moves
NextImages ==
  \/ Tick
  \/ AddImage
  \/ UpdateImageMetadata

SpecImages ==
  /\ InitIdle
  /\ [][NextImages]_vars

\* upsert_tags alone, with longer lists of names
SpecTags ==
  /\ InitIdle
  /\ [][TagsUpsertTags]_vars

\* add_image(path), as the gallery view calls it
PickedAddImage == AddImageOf(Paths, {""}, {FALSE}, MaxSearchRowid)

\* the writes on picked images, while the clock moves
NextUpdate ==
  \/ Tick
  \/ PickedAddImage
  \/ UpdateImageMetadata
  \/ StoreUpsertTags
  \/ LinkTagsToImage

SpecUpdate ==
  /\ InitIdle
  /\ [][NextUpdate]_vars

OrphanUpsertTags == UpsertTags(MaxOrphanNames, MaxOrphanRowid)

\* every write of the store, with lists of names long enough to mix a new
\* name with a stored one
NextOrphan ==
  \/ PickedAddImage
  \/ UpdateImageMetadata
  \/ OrphanUpsertTags
  \/ LinkTagsToImage
  \/ ClearTags

SpecOrphan ==
  /\ InitIdle
  /\ [][NextOrphan]_vars

\* images picked into the gallery and edited in the dialog
NextEditor ==
  \/ PickedAddImage
  \/ OpenEditor
  \/ HandleAddTag
  \/ RemoveTag
  \/ DismissEditor
  \/ SaveUpdate
  \/ SaveClearTags
  \/ SaveUpsertTags
  \/ SaveLinkTags
  \/ SaveStop

SpecEditor ==
  /\ InitIdle
  /\ [][NextEditor]_vars

\* the import of picked files, in either engine mode, the clock moving, the
\* process free to end between two writes
NextImport ==
  \/ Tick
  \/ ImportAddImage
  \/ ImportAnalyze
  \/ ImportUpdate
  \/ ImportUpsertTags
  \/ ImportLinkTags
  \/ ImportStop

InitImport ==
  /\ InitStore
  /\ use_real_ai \in BOOLEAN
  /\ ai \in {[NoAnalysis EXCEPT !.env = e] : e \in ImportEnvironments}
  /\ editor = NoEditor
  /\ importer = NoImport

SpecImport ==
  /\ InitImport
  /\ [][NextImport]_vars

\* the reads of the gallery view, on stores built while the clock moves
NextSearch ==
  \/ Tick
  \/ SearchAddImage
  \/ StoreUpsertTags
  \/ LinkTagsToImage
  \/ GetImages
  \/ SearchImages
  \/ FetchImages

SpecSearch ==
  /\ InitIdle
  /\ [][NextSearch]_vars

\* the gateway called in either engine mode, with any path, on any behaviour
\* of the filesystem and of the endpoint
InitAI ==
  /\ InitStore
  /\ use_real_ai \in BOOLEAN
  /\ ai \in {[NoAnalysis EXCEPT !.env = e] : e \in Environments}
  /\ editor = NoEditor
  /\ importer = NoImport

SpecAI == InitAI /\ [][AnalyzeImage]_vars

\* ------------------------------------------------------------ store claims
\* C1: upsert_tags returns, for each non-blank name in input order, the id
\* of the tag row whose name is the trimmed name; an existing name that
\* follows a new one gets its own id, not the id just created.
C1_UpsertReturnsOwnIds ==
  last.op = "upsert_tags" =>
    LET cn == cleaned_names(last.names)
    IN /\ Len(last.ret_ids) = Len(cn)
       /\ \A k \in 1..Len(cn) :
            /\ last.ret_ids[k] \in DOMAIN tags
            /\ tags[last.ret_ids[k]] = cn[k]

\* the path unique-ness the images table enforces
PathsUnique ==
  \A i, j \in DOMAIN images : images[i].path = images[j].path => i = j

\* an add_image step for a path the store already holds
ReAddStep ==
  /\ seq'.images # seq.images
  /\ SelectImageId(images, last'.path) # 0

\* C3: add_image is idempotent on path: the second call returns the id the
\* first returned, one image row has the path, and no row of the images,
\* tags or join table changes.
C3_AddImageIdempotent ==
  /\ [](PathsUnique)
  /\ [](last.op = "add_image" =>
          /\ last.ret_id \in DOMAIN images
          /\ images[last.ret_id].path = last.path)
  /\ [][ReAddStep =>
          /\ last'.op = "add_image"
          /\ last'.ret_id = SelectImageId(images, last'.path)
          /\ (last.op = "add_image" /\ last.path = last'.path
                => last'.ret_id = last.ret_id)
          /\ Cardinality({i \in DOMAIN images' :
                            images'[i].path = last'.path}) = 1
          /\ images' = images
          /\ tags' = tags
          /\ image_tags' = image_tags]_vars

\* add_image called for a stored path with other arguments than the row has,
\* while another image, a tag and a join row exist
C3_Witness ==
  /\ last.op = "add_image"
  /\ last.ret_id \in DOMAIN images
  /\ images[last.ret_id].description # last.description
  /\ images[last.ret_id].processed_flag # int(last.processed_flag)
  /\ Cardinality(DOMAIN images) = 2
  /\ tags # <<>>
  /\ image_tags # EmptyBag

\* C8: upsert_tags(["a", "  ", "A"]) returns exactly two distinct ids, of
\* the tags named "a" and "A", and the blank entry creates no tag row.
C8_CaseSensitivePair ==
  (last.op = "upsert_tags" /\ last.names = <<<<"a">>, <<" ", " ">>, <<"A">>>>)
    => /\ Len(last.ret_ids) = 2
       /\ last.ret_ids[1] # last.ret_ids[2]
       /\ last.ret_ids[1] \in DOMAIN tags
       /\ last.ret_ids[2] \in DOMAIN tags
       /\ tags[last.ret_ids[1]] = <<"a">>
       /\ tags[last.ret_ids[2]] = <<"A">>
       /\ \A i \in DOMAIN tags : strip(tags[i]) = tags[i] /\ tags[i] # <<>>

\* every tag id of the last link call names a tag, and its image exists
LinkableCall ==
  /\ last.op = "link_tags_to_image"
  /\ last.image_id \in DOMAIN images
  /\ \A k \in 1..Len(last.tag_ids) : last.tag_ids[k] \in DOMAIN tags

\* C9: the join table holds at most one row per (image id, tag id); linking
\* a pair again, or a list that repeats an id, leaves exactly one row for
\* the pair and raises no error.
C9_OneJoinRowPerPair ==
  /\ \A p \in BagToSet(image_tags) : Copies(image_tags, p) = 1
  /\ LinkableCall =>
       /\ last.error = ""
       /\ \A k \in 1..Len(last.tag_ids) :
            Copies(image_tags, <<last.image_id, last.tag_ids[k]>>) = 1

\* a call whose list repeats a tag id went through
C9_Witness ==
  /\ LinkableCall
  /\ Len(last.tag_ids) = 2
  /\ last.tag_ids[1] = last.tag_ids[2]
  /\ last.error = ""
  /\ Copies(image_tags, <<last.image_id, last.tag_ids[1]>>) = 1

\* C10: clear_tags removes every join row of its image and leaves the tag
\* rows, the image rows and the other images' join rows as they were;
\* link_tags_to_image(id, []) right after it leaves the image without tags.
C10_ClearTagsFrame ==
  /\ [][last'.op = "clear_tags" =>
          /\ RowsOfImage(image_tags', last'.image_id) = {}
          /\ \A p \in BagToSet(image_tags) \cup BagToSet(image_tags') :
               p[1] # last'.image_id
                 => Copies(image_tags', p) = Copies(image_tags, p)
          /\ tags' = tags
          /\ images' = images]_vars
  /\ [][(/\ last.op = "clear_tags"
         /\ last'.op = "link_tags_to_image"
         /\ last'.tag_ids = <<>>
         /\ last'.image_id = last.image_id) =>
          /\ last'.error = ""
          /\ get_tags_for_image(image_tags', tags', last'.image_id) = <<>>]_vars

\* clear_tags removed join rows of one image while another image had some
C10_Witness ==
  /\ last.op = "clear_tags"
  /\ last.rowcount > 0
  /\ RowsOfImage(image_tags, last.image_id) = {}
  /\ \E p \in BagToSet(image_tags) : p[1] # last.image_id
  /\ tags # <<>>

\* ---------------------------------------------------------- gateway claims
WellShaped(result) ==
  /\ result.raised = ""
  /\ result.payload.description.t = "str"
  /\ result.payload.tags.t = "list"
  /\ result.payload.nsfw.t = "bool"

\* C2: analyze_image never raises and returns a string description, a list
\* of tags and a boolean nsfw, whatever the filesystem and the endpoint do.
C2_AlwaysWellShaped == ai.called => WellShaped(ai.result)

\* live mode, the file read, the request answered with a 2xx status and a
\* JSON body
HttpSuccess ==
  /\ ai.called
  /\ use_real_ai
  /\ ai.image_path \in ai.env.readable
  /\ ai.env.transport = "ok"
  /\ ai.env.status \in 200..299
  /\ ai.env.body.json

\* the `response` entry is a string
HasResponseText ==
  /\ ai.env.body.data.t = "dict"
  /\ ai.env.body.data.response.t = "str"

\* the nested document, when the `response` text decodes to an object
NestedDoc == json_loads(ai.env.body.data.response.s)
NestedIsObject ==
  HasResponseText /\ NestedDoc.ok /\ NestedDoc.value.t = "dict"

\* C4: a nested document with a description and no `tags` key gives the
\* provided description with the placeholder's tag list.
C4_MissingTagsFallBack ==
  (/\ HttpSuccess
   /\ NestedIsObject
   /\ NestedDoc.doc.description.t = "str"
   /\ NestedDoc.doc.description.s # ""
   /\ NestedDoc.doc.tags.t = "absent")
    => /\ ai.result.raised = ""
       /\ ai.result.payload.description = NestedDoc.doc.description
       /\ ai.result.payload.tags = MOCK_RESPONSE.tags

\* C5: a nested `response` that is not valid JSON, or an envelope without a
\* string `response` field, gives the placeholder payload with the
\* "unexpected response" marker as description.
C5_UnexpectedMarker ==
  (/\ HttpSuccess
   /\ \/ ~HasResponseText
      \/ ~NestedDoc.ok)
    => /\ ai.result.raised = ""
       /\ ai.result.payload = Marked(Unexpected)

\* live mode, the file read, and the request failed in transport or answered
\* with a status in Failing
HttpFailure(Failing) ==
  /\ ai.called
  /\ use_real_ai
  /\ ai.image_path \in ai.env.readable
  /\ \/ ai.env.transport # "ok"
     \/ ai.env.status \in Failing

UnreachableResult ==
  /\ ai.result.raised = ""
  /\ ai.result.payload.description = PyStr(Unreachable)
  /\ ai.result.payload.tags = MOCK_RESPONSE.tags
  /\ ai.result.payload.nsfw = PyBool(FALSE)
  /\ ai.result.posts = 1

\* C6 as stated: a transport failure or any non-2xx status gives the
\* "unreachable" marker with the placeholder's tags, nsfw false, one request.
C6_NonSuccessUnreachable ==
  HttpFailure(Statuses \ (200..299)) => UnreachableResult

\* C6 amended: a transport failure or a 4xx/5xx status gives the
\* "unreachable" marker with the placeholder's tags, nsfw false, one request.
C6_ErrorStatusUnreachable ==
  HttpFailure(400..599) => UnreachableResult

\* the endpoint answered 500 with a body that would otherwise have parsed
C6_Witness ==
  /\ HttpFailure(400..599)
  /\ ai.env.transport = "ok"
  /\ ai.env.status = 500
  /\ ai.env.body.json
  /\ NestedIsObject
  /\ UnreachableResult

\* C7: in mock mode analyze_image returns the fixed placeholder payload for
\* every path, reading no file and sending no request.
C7_MockModePlaceholder ==
  (ai.called /\ ~use_real_ai)
    => /\ ai.result.raised = ""
       /\ ai.result.payload = MOCK_RESPONSE
       /\ ai.result.reads = 0
       /\ ai.result.posts = 0

\* mock mode, a file that does not exist, an endpoint that is down
C7_Witness ==
  /\ ai.called
  /\ ~use_real_ai
  /\ ai.image_path = "missing.jpg"
  /\ ai.image_path \notin ai.env.readable
  /\ ai.env.transport = "ConnectionError"
  /\ ai.result.payload = MOCK_RESPONSE

\* ---------------------------------------------------- store claims, again
\* C13: update_image_metadata overwrites the description and the processed
\* flag of the image with the given id and nothing else: its path, its
\* creation time, its tags and every other image stay as they were; for an
\* id no image has it raises no error, creates no row and changes nothing.
C13_UpdateOverwritesOne ==
  [][last'.op = "update_image_metadata" =>
       /\ last'.error = ""
       /\ DOMAIN images' = DOMAIN images
       /\ \A i \in DOMAIN images :
            /\ images'[i].path = images[i].path
            /\ images'[i].created_at = images[i].created_at
            /\ IF i = last'.image_id
               THEN /\ images'[i].description = last'.description
                    /\ images'[i].processed_flag = int(last'.processed_flag)
               ELSE images'[i] = images[i]
       /\ tags' = tags
       /\ image_tags' = image_tags
       /\ (last'.image_id \notin DOMAIN images => images' = images)]_vars

\* a second after the images were added, an update changed the description
\* and the flag of an image with a tag, while another image, not processed,
\* kept its own
C13_Witness ==
  /\ last.op = "update_image_metadata"
  /\ last.image_id \in DOMAIN images
  /\ last.description = "d"
  /\ last.processed_flag
  /\ images[last.image_id].description = "d"
  /\ images[last.image_id].processed_flag = 1
  /\ images[last.image_id].created_at < clock
  /\ RowsOfImage(image_tags, last.image_id) # {}
  /\ \E i \in DOMAIN images :
       /\ i # last.image_id
       /\ images[i].description = ""
       /\ images[i].processed_flag = 0

\* C14: no step of the store removes an image row or a tag row; a tag that
\* clear_tags leaves without join rows keeps its id, and a later upsert_tags
\* of its name returns that id.
C14_RowsOnlyGrow ==
  /\ [][/\ DOMAIN images \subseteq DOMAIN images'
        /\ \A i \in DOMAIN tags : i \in DOMAIN tags' /\ tags'[i] = tags[i]]_vars
  /\ [][(/\ last.op = "clear_tags"
         /\ tags # <<>>
         /\ last.rowcount = Cardinality(DOMAIN tags)
         /\ last'.op = "upsert_tags") =>
          LET cn == cleaned_names(last'.names)
          IN \A k \in 1..Len(cn) : \A i \in DOMAIN tags :
               tags[i] = cn[k] =>
                 /\ k <= Len(last'.ret_ids)
                 /\ last'.ret_ids[k] = i]_vars

\* the last link call named an image or a tag the store does not have
DanglingCall ==
  /\ last.op = "link_tags_to_image"
  /\ \/ last.image_id \notin DOMAIN images
     \/ \E k \in 1..Len(last.tag_ids) : last.tag_ids[k] \notin DOMAIN tags

\* every join row references an image row and a tag row
JoinRowsReference ==
  \A p \in BagToSet(image_tags) : p[1] \in DOMAIN images /\ p[2] \in DOMAIN tags

\* a link call that failed left the join table as it was
FailedLinkInsertsNothing ==
  (last'.op = "link_tags_to_image" /\ last'.error # "")
    => image_tags' = image_tags

\* C18 as stated: every join row references an existing image and an
\* existing tag; link_tags_to_image with an image id or a tag id that does
\* not exist fails with an error, and the failing call inserts no row.
C18_DanglingLinkFails ==
  /\ [](JoinRowsReference)
  /\ [](DanglingCall => last.error # "")
  /\ [][FailedLinkInsertsNothing]_vars

\* C18 amended: the same, for calls that list at least one tag id (a call
\* with an empty list returns at once, whatever the image id).
C18_DanglingPairFails ==
  /\ [](JoinRowsReference)
  /\ []((DanglingCall /\ last.tag_ids # <<>>) => last.error # "")
  /\ [][FailedLinkInsertsNothing]_vars

\* a call listing a stored tag and then a missing one failed, and the pair
\* with the stored tag is not in the join table, which has other rows
C18_Witness ==
  /\ DanglingCall
  /\ last.error = "IntegrityError"
  /\ last.image_id \in DOMAIN images
  /\ Len(last.tag_ids) = 2
  /\ last.tag_ids[1] \in DOMAIN tags
  /\ last.tag_ids[2] \notin DOMAIN tags
  /\ ~BagIn(<<last.image_id, last.tag_ids[1]>>, image_tags)
  /\ image_tags # EmptyBag

\* ------------------------------------------------------------- read claims
\* the rows come oldest first (ascending) or newest first
SortedByCreated(result, order) ==
  \A j, k \in 1..Len(result) :
    j < k => IF order = "asc"
             THEN result[j].created_at <= result[k].created_at
             ELSE result[j].created_at >= result[k].created_at

\* C11: get_images and search_images take the order option the gallery view
\* passes, so that its fetch obtains a list, not an error: oldest first when
\* ascending order is asked for, newest first otherwise.
C11_FetchTakesOrder ==
  last.op = "_fetch_images" =>
    /\ last.error = ""
    /\ SortedByCreated(last.rows, last.kwargs["order"])

\* case folding as str.lower() does it, for the characters the inputs use
Lower(c) ==
  CASE c = "A" -> "a"
    [] c = "C" -> "c"
    [] c = "É" -> "é"
    [] OTHER -> c

\* text contains sub, up to the folding F
Contains(text, sub, F(_)) ==
  \E k \in 0..(Len(text) - Len(sub)) :
    \A j \in 1..Len(sub) : F(text[k + j]) = F(sub[j])

\* a search that returned, for a non-empty query without % and _
WildcardFreeSearch ==
  /\ last.op = "search_images"
  /\ last.error = ""
  /\ last.query # <<>>
  /\ \A k \in 1..Len(last.query) : last.query[k] \notin {"%", "_"}

\* the images whose description, or the name of one of whose tags, contains
\* the trimmed query up to the folding F
Containing(F(_)) ==
  {i \in DOMAIN images :
     \/ Contains(chars(images[i].description), strip(last.query), F)
     \/ \E p \in BagToSet(image_tags) :
          /\ p[1] = i
          /\ p[2] \in DOMAIN tags
          /\ Contains(tags[p[2]], strip(last.query), F)}

\* the rows returned are rows of images in S, each image once, and as many
\* of them as limit and offset leave
ExactlyOnce(S) ==
  LET limit == Arg(last.kwargs, "limit", 100)
      offset == Arg(last.kwargs, "offset", 0)
      rest == IF Cardinality(S) > offset THEN Cardinality(S) - offset ELSE 0
  IN /\ \A k \in 1..Len(last.rows) :
          /\ last.rows[k].id \in S
          /\ last.rows[k] = RowDict(images, last.rows[k].id)
     /\ \A j, k \in 1..Len(last.rows) :
          last.rows[j].id = last.rows[k].id => j = k
     /\ Len(last.rows) = IF limit < rest THEN limit ELSE rest

\* C12 as stated: search_images(query), for a non-empty query without % and
\* _, returns exactly the images (up to limit) whose description contains
\* the trimmed query case-insensitively or that have a tag whose name does,
\* each image once.
C12_SearchContains == WildcardFreeSearch => ExactlyOnce(Containing(Lower))

\* C12 amended: the same, the case of the 26 ASCII letters being the only
\* case the match ignores.
C12_SearchContainsAscii ==
  WildcardFreeSearch => ExactlyOnce(Containing(UpperToLower))

\* the query "a" returned once the image whose description and whose two
\* tags, "a" and "A", all match, and not the other image
C12_Witness ==
  /\ WildcardFreeSearch
  /\ last.query = <<"a">>
  /\ Len(last.rows) = 1
  /\ last.rows[1].description = "ca"
  /\ Cardinality(RowsOfImage(image_tags, last.rows[1].id)) = 2
  /\ Cardinality(DOMAIN images) = 2

\* ----------------------------------------------------------- editor claims
\* the names of the list, and the list free of blanks and repeats
NameSet(list) == {list[k] : k \in 1..Len(list)}
DistinctNonBlank(list) ==
  /\ \A k \in 1..Len(list) : list[k] # <<>> /\ strip(list[k]) = list[k]
  /\ \A j, k \in 1..Len(list) : list[j] = list[k] => j = k

\* C15: after the editor's save the image's stored tags are exactly the
\* editor's list of distinct non-blank names, also when the list mixes names
\* new to the store with names other images use.
C15_SaveReplacesTagSet ==
  (last.op = "_handle_save" /\ DistinctNonBlank(last.names)) =>
    LET stored == get_tags_for_image(image_tags, tags, last.image_id)
    IN /\ last.error = ""
       /\ NameSet(stored) = NameSet(last.names)
       /\ Len(stored) = Len(last.names)

\* ----------------------------------------------------------- import claims
\* a step that begins the import of a file
ImportBegins ==
  /\ importer' # importer
  /\ importer'.pc = "added"
  /\ ~importer'.stopped

\* C16: each write of the import commits on its own: add_image of a path new
\* to the store leaves its image row with no join row; every step up to the
\* link keeps that row and the join table as they are and removes nothing
\* written before; and a stop at any of these points changes nothing in the
\* store.
C16_WritesCommitAlone ==
  /\ [][(ImportBegins /\ SelectImageId(images, importer'.path) = 0) =>
          /\ importer'.image_id \in DOMAIN images'
          /\ importer'.image_id \notin DOMAIN images
          /\ images'[importer'.image_id].path = importer'.path
          /\ RowsOfImage(image_tags', importer'.image_id) = {}
          /\ \A i \in DOMAIN images : images'[i] = images[i]]_vars
  /\ [][(/\ importer.pc \in Underway
         /\ ~importer.stopped
         /\ importer'.pc \in Underway
         /\ importer'.image_id = importer.image_id) =>
          /\ importer.image_id \in DOMAIN images'
          /\ images'[importer.image_id].path = importer.path
          /\ image_tags' = image_tags
          /\ \A i \in DOMAIN images :
               i \in DOMAIN images'
                 /\ (i # importer.image_id => images'[i] = images[i])
          /\ \A t \in DOMAIN tags : t \in DOMAIN tags' /\ tags'[t] = tags[t]]_vars
  /\ [][(~importer.stopped /\ importer'.stopped) =>
          /\ importer.pc \in Underway
          /\ images' = images
          /\ tags' = tags
          /\ image_tags' = image_tags]_vars

\* the import of the first file stopped after upsert_tags: the image row,
\* described and flagged as processed, and the tag rows are in the store,
\* and the image has no join row
C16_Witness ==
  /\ importer.stopped
  /\ importer.pc = "upserted"
  /\ seq.images = 1
  /\ importer.image_id \in DOMAIN images
  /\ images[importer.image_id].path = importer.path
  /\ images[importer.image_id].processed_flag = 1
  /\ images[importer.image_id].description
       = bind_text(analysis_description(importer.analysis)).value
  /\ importer.tag_ids # <<>>
  /\ \A k \in 1..Len(importer.tag_ids) : importer.tag_ids[k] \in DOMAIN tags
  /\ RowsOfImage(image_tags, importer.image_id) = {}

\* -------------------------------------------------- gateway claims, again
\* C17: for a nested document that is a JSON object, a description and a
\* caption both absent or falsy give the placeholder's description with the
\* document's own tags and nsfw; a caption stands in for an absent
\* description; and a `tags` entry that is not a list, falsy or not, gives
\* the placeholder's tag list.
C17_NestedFallbacks ==
  (HttpSuccess /\ NestedIsObject) =>
    LET doc == NestedDoc.doc
    IN /\ ai.result.raised = ""
       /\ (~truthy(get(doc.description)) /\ ~truthy(get(doc.caption))) =>
            /\ ai.result.payload.description = MOCK_RESPONSE.description
            /\ doc.tags.t = "list" => ai.result.payload.tags = doc.tags
            /\ ai.result.payload.nsfw
                 = PyBool(truthy(get_default(doc.nsfw, PyBool(FALSE))))
       /\ (doc.description.t = "absent" /\ truthy(get(doc.caption))) =>
            ai.result.payload.description = doc.caption
       /\ doc.tags.t \notin {"absent", "list"} =>
            ai.result.payload.tags = MOCK_RESPONSE.tags
====
